---- MODULE Spec2Model ----
(***************************************************************************)
(* The resumable countdown timer of the task registry: the FullscreenTimer *)
(* overlay (src/src/components/FullscreenTimer.jsx), the TaskCard that     *)
(* opens it (src/unnamed/part_009) and the durable task row both write.    *)
(*                                                                         *)
(* Times are wall-clock milliseconds (Date.now()).  The local base and the *)
(* displayed remaining are kept in milliseconds (the code keeps fractional *)
(* seconds); the durable remaining_seconds is whole seconds.               *)
(* A React closure sees the `running` of the render that created it, so    *)
(* every operator that models a closure takes that flag as the parameter r.*)
(*                                                                         *)
(* Two browsers (clients) have the task's card on screen.  Requests to the *)
(* backend succeed and resolve before the client's next event, and the     *)
(* clock moves only when no request or notification is in flight.          *)
(***************************************************************************)
EXTENDS Integers, Sequences, FiniteSets, TLC

Clients == {"A", "B"}

\* JS null / absent (timestamps are never negative)
NULL == 0 - 1

\* ---- program constants
MsPerSec == 1000
ToleranceSec == 2
PersistIntervalMs == 10000
FinishCloseDelayMs == 700
FinishNowCloseDelayMs == 350

PomIntervalMs == 1000
DefaultWorkSec == 1500
DefaultShortSec == 300
DefaultLongSec == 900
DefaultLongEvery == 4

\* ---- bounds of the model
MaxPomFires == 3
MaxPomOps == 3
MaxNowSec == 3
MaxInbox == 3
MaxFinishCalls == 2
MaxLagSteps == 0
MaxUserOps == 3

\* Date.now() at the first state: an epoch time, far beyond persistIntervalMs,
\* so that "Date.now() - 0 >= persistIntervalMs" holds as it does in a browser.
Epoch == PersistIntervalMs
\* how far the wall clock moves in one step of the model
StepsMs == {1500}
\* duration_minutes * 60 of the task, scaled down to seconds
DurationsSec == {3, 6}

VARIABLES
    now,      \* Date.now()
    db,       \* the task row in the tasks table
    card,     \* card[c]: the `task` prop of client c's TaskCard (last loadTasks result)
    busy,     \* busy[c]: "start" while startOrResume awaits its update, else "idle"
    sess,     \* sess[c]: client c's FullscreenTimer instance (refs and state)
    inbox,    \* inbox[c]: postgres_changes payloads not yet delivered to c's handler
    due,      \* the timers whose 250 ms ticker has not fired since the clock moved
    lag,      \* clock steps taken while a request or notification was in flight
    ops,      \* user actions (clicks, keys, tab switches) so far
    lossy,    \* whether requests to the backend can fail in this behaviour
    pom,      \* the Pomodoro component: its state, refs and pending timeouts
    hist      \* observation of the last step (not program state)

vars == <<now, db, card, busy, sess, inbox, due, lag, ops, lossy, pom, hist>>

\* the variables of the task timer
timerVars == <<now, db, card, busy, sess, inbox, due, lag, ops, lossy, hist>>

Max(a, b) == IF a >= b THEN a ELSE b
Min(a, b) == IF a <= b THEN a ELSE b
Abs(a) == IF a >= 0 THEN a ELSE 0 - a
\* Math.floor(ms / 1000) for ms >= 0
FloorSec(ms) == ms \div MsPerSec

\* the fields of a row that the timer reads from a payload or a select
Row(rec) ==
    [remaining_seconds |-> rec.remaining_seconds,
     is_running |-> rec.is_running,
     last_started_at |-> rec.last_started_at]

ClosedSession ==
    [open |-> FALSE, base |-> 0, startTs |-> NULL, running |-> FALSE,
     remaining |-> 0, subRunning |-> FALSE, lastPersist |-> 0,
     ackPending |-> FALSE, finishCalls |-> 0, fnPending |-> 0,
     closeAt |-> NULL, hidden |-> FALSE]

NoRow == [remaining_seconds |-> 0, is_running |-> FALSE, last_started_at |-> NULL]

\* what the last step was: whose handler, which, and the payload it handled;
\* for a pause, stop, finish-now, hide or show, computeRemainingNow() before it
\* (rem); for a resume that directly
\* follows the same client's pause, paired is set and rem is the pause's;
\* out: the payloads of the updates the step sent, in order; since: for a
\* hide, the time since lastPersistRef was set
NoHist ==
    [c |-> "A", op |-> "none", row |-> NoRow, rem |-> 0, paired |-> FALSE,
     out |-> << >>, since |-> 0]

\* ------------------------------------------------------------------------
\* FullscreenTimer: pure parts

\* a countdown that adds the elapsed time
computeRemainingNow_CountsUp(s, r, t) ==
    IF r /\ s.startTs # NULL
    THEN Max(0, s.base + Max(0, t - s.startTs))
    ELSE Max(0, s.base)

\* computeRemainingNow as seen by a closure whose `running` is r
computeRemainingNow(s, r, t) ==
    IF r /\ s.startTs # NULL
    THEN Max(0, s.base - Max(0, t - s.startTs))
    ELSE Max(0, s.base)

\* the value the initial state / setRemaining updater derives from row fields
liveFromRow(remSec, run, last, t) ==
    IF run /\ last # NULL
    THEN Max(0, remSec * MsPerSec - Max(0, t - last))
    ELSE remSec * MsPerSec

\* useRef / useState initialisers of a freshly mounted FullscreenTimer
MountSession(task, t) ==
    [ClosedSession EXCEPT
        !.open = TRUE,
        !.base = task.remaining_seconds * MsPerSec,
        !.startTs = IF task.is_running /\ task.last_started_at # NULL
                    THEN task.last_started_at ELSE NULL,
        !.running = task.is_running,
        !.subRunning = task.is_running,
        !.remaining = Max(0, liveFromRow(task.remaining_seconds, task.is_running,
                                         task.last_started_at, t))]

\* the row persistToDb(forceStop) writes, from a closure whose `running` is r
PersistRow(rec, s, r, forceStop, t) ==
    LET cur == computeRemainingNow(s, r, t)
        rem == Max(0, FloorSec(cur))
    IN  IF forceStop \/ ~r
        THEN [rec EXCEPT !.remaining_seconds = rem, !.is_running = FALSE,
                         !.last_started_at = NULL]
        ELSE [rec EXCEPT !.remaining_seconds = rem, !.is_running = TRUE,
                         !.last_started_at = IF s.startTs # NULL THEN s.startTs ELSE t]

\* the update both the card's markComplete and the onFinish callback send
CompleteRow(rec) ==
    [rec EXCEPT !.status = "completed", !.is_running = FALSE, !.remaining_seconds = 0]

\* a persistToDb whose failure stops the countdown
persistToDb_FailureStops(x, r, forceStop, t, o) ==
    IF o = "fail" THEN [x EXCEPT !.s.running = FALSE, !.s.startTs = NULL]
    ELSE LET row == PersistRow(x.db, x.s, r, forceStop, t)
         IN  [s |-> IF o = "o" THEN [x.s EXCEPT !.lastPersist = t]
                    ELSE [x.s EXCEPT !.ackPending = TRUE],
              db |-> row,
              out |-> Append(x.out, Row(row))]

\* A handler's run is threaded through a record x = [s, db, out]:
\* the session, the row, and the rows written (to be broadcast) so far.
\* o: the update fails, or succeeds and resolves (lastPersistRef = Date.now())
\* before the client's next event ("o") or after it ("late", see Ack)
persistToDb(x, r, forceStop, t, o) ==
    IF o = "fail" THEN x
    ELSE LET row == PersistRow(x.db, x.s, r, forceStop, t)
         IN  [s |-> IF o = "o" THEN [x.s EXCEPT !.lastPersist = t]
                    ELSE [x.s EXCEPT !.ackPending = TRUE],
              db |-> row,
              out |-> Append(x.out, Row(row))]

\* the card's onFinish callback: one update, errors swallowed
\* (finishCalls counts the invocations within one timer instance, up to the bound)
onFinish(x, o) ==
    LET s1 == [x.s EXCEPT !.finishCalls = Min(@ + 1, MaxFinishCalls)]
    IN  IF o # "fail"
        THEN [s |-> s1, db |-> CompleteRow(x.db), out |-> Append(x.out, Row(CompleteRow(x.db)))]
        ELSE [x EXCEPT !.s = s1]

SetCloseTimer(s, at) ==
    [s EXCEPT !.closeAt = IF @ = NULL THEN at ELSE Min(@, at)]

\* the effect on [remaining]: it runs after the mount render and after every
\* render in which `remaining` changed, with that render's `running`
finishEffect(x, changed, t, o1, o2) ==
    IF changed /\ x.s.remaining <= 0 /\ x.s.running
    THEN LET s1 == [x.s EXCEPT !.running = FALSE, !.base = 0, !.startTs = NULL]
             x1 == persistToDb([x EXCEPT !.s = s1], TRUE, TRUE, t, o1)
             x2 == onFinish(x1, o2)
         IN  [x2 EXCEPT !.s = SetCloseTimer(x2.s, t + FinishCloseDelayMs)]
    ELSE x

\* the postgres_changes handler; its closure is the mount render's, so the
\* `running` it compares with, and the one its computeRemainingNow reads, is
\* s.subRunning
reconcile(s, row, t) ==
    LET remoteRem == row.remaining_seconds * MsPerSec
        remoteRunning == row.is_running
        remoteLastStart == row.last_started_at
        adopted == [s EXCEPT
                      !.base = remoteRem,
                      !.startTs = IF remoteRunning /\ remoteLastStart # NULL
                                  THEN remoteLastStart ELSE NULL,
                      !.remaining = liveFromRow(row.remaining_seconds, remoteRunning,
                                                remoteLastStart, t)]
    IN  IF remoteRunning # s.subRunning
        THEN [adopted EXCEPT !.running = remoteRunning]
        ELSE IF Abs(computeRemainingNow(s, s.subRunning, t) - remoteRem)
                    > ToleranceSec * MsPerSec
             THEN adopted
             ELSE s

\* handleResume up to its persistToDb call
resumeSession(s, t) ==
    [s EXCEPT !.base = Max(0, computeRemainingNow(s, s.running, t)),
              !.startTs = t,
              !.running = TRUE,
              !.lastPersist = 0]

\* a pause that does not fold the elapsed time into base
pauseSession_KeepsBase(s, t) ==
    [s EXCEPT !.startTs = NULL, !.running = FALSE]

\* handlePause up to its persistToDb call
pauseSession(s, t) ==
    [s EXCEPT !.base = Max(0, computeRemainingNow(s, s.running, t)),
              !.startTs = NULL,
              !.running = FALSE]

\* a forced finish that leaves the base as it was
finishNowSession_KeepsBase(s) ==
    [s EXCEPT !.startTs = NULL, !.remaining = 0, !.running = FALSE]

\* handleFinishNow up to its persistToDb call
finishNowSession(s) ==
    [s EXCEPT !.base = 0, !.startTs = NULL, !.remaining = 0, !.running = FALSE]

\* a resync that takes the flags of the row but keeps the local base
resyncSession_KeepsBase(s, row, t) ==
    [s EXCEPT
        !.startTs = IF row.is_running /\ row.last_started_at # NULL
                    THEN row.last_started_at
                    ELSE IF row.is_running THEN t ELSE NULL,
        !.running = row.is_running,
        !.remaining = liveFromRow(row.remaining_seconds, row.is_running,
                                  row.last_started_at, t)]

\* onVisibility, visible branch, with the selected row
resyncSession(s, row, t) ==
    [s EXCEPT
        !.base = row.remaining_seconds * MsPerSec,
        !.startTs = IF row.is_running /\ row.last_started_at # NULL
                    THEN row.last_started_at
                    ELSE IF row.is_running THEN t ELSE NULL,
        !.running = row.is_running,
        !.remaining = liveFromRow(row.remaining_seconds, row.is_running,
                                  row.last_started_at, t)]

\* an unmount that leaves the delayed onClose armed
closeSession_KeepsCloseTimer(s) ==
    [ClosedSession EXCEPT !.fnPending = s.fnPending, !.closeAt = s.closeAt]

\* unmount: the refs and state are gone; a handleFinishNow still awaiting its
\* update keeps running
closeSession(s) ==
    [ClosedSession EXCEPT !.fnPending = s.fnPending]

\* ------------------------------------------------------------------------
\* TaskCard: pure parts

\* computeLiveRemaining(task), whole seconds
computeLiveRemaining(task, t) ==
    IF task.is_running /\ task.last_started_at # NULL
    THEN Max(0, task.remaining_seconds - FloorSec(t - task.last_started_at))
    ELSE Max(0, task.remaining_seconds)

\* a start that keeps the row's last_started_at
StartRow_KeepsStamp(rec, task, t) ==
    [rec EXCEPT !.is_running = TRUE, !.remaining_seconds = task.remaining_seconds]

\* the update startOrResume sends
StartRow(rec, task, t) ==
    [rec EXCEPT !.is_running = TRUE, !.last_started_at = t,
                !.remaining_seconds = task.remaining_seconds]

\* the update pauseTimer sends
PauseRow(rec, task, t) ==
    [rec EXCEPT !.is_running = FALSE, !.last_started_at = NULL,
                !.remaining_seconds = computeLiveRemaining(task, t)]

\* ------------------------------------------------------------------------
\* Pomodoro: useAccurateInterval and the countdown it drives
\* (src/src/components/Pomodoro.jsx).  Times are performance.now() in ms.

\* how late the browser may run a timeout that is due
PomDelays == {0, 400}

\* a JS null in arithmetic
Num(v) == IF v = NULL THEN 0 ELSE v

\* the Pomodoro component after its mount: not running, no timeout pending.
\* timers: the pending setTimeout callbacks (id, due time); timerRef,
\* expected: the refs of useAccurateInterval; hasCleanup: the last run of
\* its effect returned a cleanup; renderPending: a state update waits for
\* its render.  Observations: ticks and startAt (callbacks since the
\* scheduler was started, and when), tickAt/delay/drift/next (the last
\* firing: its time, how late the browser ran it, the drift it computed and
\* the delay it scheduled), lateTicks (callbacks invoked after a cancel),
\* last (the last step).  mode, cyclesCompleted, sessionCount, longEvery and
\* autoStartNext are the component's state of those names; keyRunning,
\* keyMode and keyLongEvery are the values of the render in which the
\* effect of the keyboard shortcuts last ran, which its onKey closes over
PomInitial ==
    [t |-> 0, mounted |-> TRUE, running |-> FALSE, secondsLeft |-> DefaultWorkSec,
     mode |-> "work", cyclesCompleted |-> 0, sessionCount |-> 0,
     longEvery |-> DefaultLongEvery, autoStartNext |-> FALSE,
     keyRunning |-> FALSE, keyMode |-> "work", keyLongEvery |-> DefaultLongEvery,
     expected |-> NULL, timerRef |-> NULL, timers |-> {}, nextId |-> 1,
     hasCleanup |-> FALSE, renderPending |-> FALSE,
     fires |-> 0, ops |-> 0,
     ticks |-> 0, startAt |-> NULL, tickAt |-> NULL, delay |-> 0, drift |-> 0,
     next |-> 0, lateTicks |-> 0, last |-> "none"]

\* clearTimeout(timerRef.current)
clearTimer(p) ==
    [p EXCEPT !.timers = {tm \in @ : tm.id # p.timerRef}]

\* a cleanup that leaves the timeout pending
effectCleanup_LeavesTimer(p) == p

\* the cleanup the running branch of the effect returned
effectCleanup(p) ==
    IF p.hasCleanup /\ p.timerRef # NULL THEN clearTimer(p) ELSE p

\* setTimeout(step, delay): a new pending callback, its id in timerRef
armTimer(p, delay) ==
    [p EXCEPT !.timers = @ \cup {[id |-> p.nextId, due |-> p.t + delay]},
              !.timerRef = p.nextId,
              !.nextId = @ + 1]

\* the body of the effect of useAccurateInterval
effectRun(p) ==
    IF ~p.running
    THEN [clearTimer(p) EXCEPT !.timerRef = NULL, !.expected = NULL, !.hasCleanup = FALSE]
    ELSE [armTimer([p EXCEPT !.expected = p.t + PomIntervalMs], PomIntervalMs)
            EXCEPT !.hasCleanup = TRUE]

\* the effect of the keyboard shortcuts, dependencies [running, mode,
\* workDur, shortDur, longDur] (the durations are not edited here): when one
\* has changed, onKey is replaced by the one of this render
keyEffect(p) ==
    IF p.running # p.keyRunning \/ p.mode # p.keyMode
    THEN [p EXCEPT !.keyRunning = p.running, !.keyMode = p.mode,
                   !.keyLongEvery = p.longEvery]
    ELSE p

\* a render of Pomodoro and its effects: onTick is a new function on every
\* render, so the dependencies [onTick, intervalMs, running] have changed
\* and the effect runs again, after the cleanup of its previous run
render(p) ==
    [keyEffect(effectRun(effectCleanup(p))) EXCEPT !.renderPending = FALSE]

\* a fixed delay, whatever the drift
nextDelay_Fixed(drift) == PomIntervalMs

\* the delay a firing schedules the next one with
nextDelay(drift) == Max(0, PomIntervalMs - drift)

\* the updater of the tick callback, from a render whose `running` is r
tickUpdate(s, r) ==
    IF ~r THEN s ELSE IF s <= 1 THEN 0 ELSE s - 1

\* the full duration of a mode
durationOf(m) ==
    IF m = "work" THEN DefaultWorkSec
    ELSE IF m = "short" THEN DefaultShortSec ELSE DefaultLongSec

\* the transition handleFinish and skipToNext both make, in a closure whose
\* mode is m and whose longEvery is le; the updater of setSessionCount sees
\* the current sessionCount
modeTransition(p, m, le) ==
    IF m = "work"
    THEN LET next == p.sessionCount + 1
         IN  IF next >= le
             THEN [p EXCEPT !.cyclesCompleted = @ + 1, !.sessionCount = 0,
                            !.mode = "long", !.secondsLeft = DefaultLongSec]
             ELSE [p EXCEPT !.cyclesCompleted = @ + 1, !.sessionCount = next,
                            !.mode = "short", !.secondsLeft = DefaultShortSec]
    ELSE [p EXCEPT !.mode = "work", !.secondsLeft = DefaultWorkSec]

\* handleFinish, called by the tick's updater; the updates it queues are
\* applied after the 0 the updater returns
handleFinish(p) ==
    IF p.mode = "work" THEN modeTransition(p, p.mode, p.longEvery)
    ELSE [modeTransition(p, p.mode, p.longEvery) EXCEPT !.running = p.autoStartNext]

\* skipToNext, in a closure whose mode is m and whose longEvery is le
skipToNext(p, m, le) == modeTransition([p EXCEPT !.running = FALSE], m, le)

\* step(): one firing of the timeout, at p.t
step(p) ==
    LET drift == p.t - Num(p.expected)
        s1 == tickUpdate(p.secondsLeft, TRUE)
        pf == IF p.secondsLeft <= 1 THEN handleFinish(p) ELSE p
        p1 == [pf EXCEPT !.secondsLeft = IF p.secondsLeft <= 1 THEN @ ELSE s1,
                        !.renderPending = @ \/ pf.secondsLeft # p.secondsLeft
                                            \/ s1 # p.secondsLeft,
                        !.expected = Num(@) + PomIntervalMs,
                        !.drift = drift,
                        !.next = nextDelay(drift)]
    IN  armTimer(p1, nextDelay(drift))

\* ------------------------------------------------------------------------
\* the state machine

InitRow(d) ==
    [remaining_seconds |-> d, is_running |-> FALSE, last_started_at |-> NULL,
     status |-> "pending"]

InitWith(l) ==
    /\ now = Epoch
    /\ \E d \in DurationsSec : db = InitRow(d)
    /\ card = [c \in Clients |-> db]
    /\ busy = [c \in Clients |-> "idle"]
    /\ sess = [c \in Clients |-> ClosedSession]
    /\ inbox = [c \in Clients |-> << >>]
    /\ due = {}
    /\ lag = 0
    /\ ops = 0
    /\ lossy = l
    /\ pom = PomInitial
    /\ hist = NoHist

Init == InitWith(FALSE)

\* the results a request to the backend can have
Results == IF lossy THEN {"o", "late", "fail"} ELSE {"o"}

\* every write is delivered, as the full new row, to every subscribed timer
Deliver(c, out, ss, taken) ==
    [d \in Clients |->
        IF ss[d].open
        THEN (IF d = c /\ taken THEN Tail(inbox[d]) ELSE inbox[d]) \o out
        ELSE << >>]

Fits(c, out, ss, taken) ==
    \A d \in Clients : ss[d].open =>
        Len(inbox[d]) - (IF d = c /\ taken THEN 1 ELSE 0) + Len(out) <= MaxInbox

\* TaskRegistryPage reloads the tasks on every change of the table, and the
\* reload lands before the user's next action, except that a card awaiting its
\* startOrResume update keeps the task prop of the click until the timer is
\* mounted, and a timer open on a task that became completed stays mounted
\* until LoadTasks removes its card
Reloaded(bz, ss, row) ==
    [d \in Clients |->
        IF bz[d] = "start" \/ (ss[d].open /\ row.status = "completed")
        THEN card[d] ELSE row]

Observe(c, op, row, out) ==
    LET paired == op = "resume" /\ hist.op = "pause" /\ hist.c = c
    IN  hist' = [c |-> c, op |-> op, row |-> row,
                 rem |-> IF op \in {"pause", "stop", "finishNow", "hide", "show"}
                         THEN computeRemainingNow(sess[c], sess[c].running, now)
                         ELSE IF paired THEN hist.rem ELSE 0,
                 paired |-> paired,
                 out |-> out,
                 since |-> IF op = "hide" THEN now - sess[c].lastPersist ELSE 0]

\* the start of a handler run of client c's timer
Run(c) == [s |-> sess[c], db |-> db, out |-> << >>]

\* commit a handler run x of client c's timer; taken: it consumed the head of
\* c's inbox; ticked: it was a firing of c's ticker
Commit(c, x, op, row, taken, ticked) ==
    LET ss == [sess EXCEPT ![c] = x.s]
    IN  /\ Fits(c, x.out, ss, taken)
        /\ sess' = ss
        /\ db' = x.db
        /\ inbox' = Deliver(c, x.out, ss, taken)
        /\ due' = IF ticked \/ ~x.s.open \/ x.s.hidden THEN due \ {c}
                  ELSE IF ~sess[c].open THEN due \cup {c}
                  ELSE due
        /\ busy' = [busy EXCEPT ![c] = "idle"]
        /\ card' = Reloaded(busy', ss, x.db)
        /\ IF op = "tick" /\ x = Run(c) THEN hist' = hist ELSE Observe(c, op, row, x.out)
        /\ UNCHANGED <<now, lag, lossy, pom>>

\* commit one update sent by client c's card
CardWrite(c, row, o, op, bz) ==
    /\ Fits(c, <<Row(row)>>, sess, FALSE)
    /\ db' = IF o # "fail" THEN row ELSE db
    /\ busy' = [busy EXCEPT ![c] = bz]
    /\ card' = Reloaded(busy', sess, db')
    /\ inbox' = IF o # "fail" THEN Deliver(c, <<Row(row)>>, sess, FALSE) ELSE inbox
    /\ Observe(c, op, NoRow, IF o # "fail" THEN <<Row(row)>> ELSE << >>)
    /\ UNCHANGED <<now, sess, due, lag, lossy, pom>>

\* a step the user takes
UserOp == ops < MaxUserOps /\ ops' = ops + 1
\* a step the program takes by itself
AutoOp == ops' = ops

\* a request or a change notification is under way
InFlight ==
    \E c \in Clients :
        \/ inbox[c] # << >>
        \/ busy[c] # "idle"
        \/ sess[c].ackPending
        \/ sess[c].fnPending > 0

\* the wall clock moves on; every visible timer's ticker has fired since the
\* last move, and what is in flight lands within MaxLagSteps moves
AdvanceTime ==
    /\ due = {}
    /\ InFlight => lag < MaxLagSteps
    /\ \E d \in StepsMs :
        /\ now + d <= Epoch + MaxNowSec * MsPerSec
        /\ now' = now + d
    /\ due' = {c \in Clients : sess[c].open /\ ~sess[c].hidden}
    /\ lag' = IF InFlight THEN lag + 1 ELSE 0
    /\ hist' = NoHist
    /\ UNCHANGED <<db, card, busy, sess, inbox, ops, lossy, pom>>

\* loadTasks: the card's task prop becomes the row; TaskList shows only tasks
\* that are not completed, so a completed task's card (and its timer) unmounts
LoadTasks(c) ==
    /\ card[c] # db
    /\ card' = [card EXCEPT ![c] = db]
    /\ IF db.status = "completed" /\ sess[c].open
       THEN /\ sess' = [sess EXCEPT ![c] = closeSession(@)]
            /\ inbox' = [inbox EXCEPT ![c] = << >>]
            /\ due' = due \ {c}
       ELSE UNCHANGED <<sess, inbox, due>>
    /\ hist' = NoHist
    /\ UNCHANGED <<now, db, busy, lag, ops, lossy, pom>>

\* the card's buttons are under the timer's full-screen overlay while it is open
CardIdle(c) == busy[c] = "idle" /\ ~sess[c].open /\ sess[c].fnPending = 0

\* startOrResume up to the await of its update
StartOrResume(c) ==
    /\ UserOp
    /\ CardIdle(c)
    /\ ~card[c].is_running /\ card[c].status # "completed"
    /\ \E o \in Results :
        CardWrite(c, StartRow(db, card[c], now), o, "cardStart",
                  IF o # "fail" THEN "start" ELSE "idle")

\* a freshly mounted timer, after its first effects
Mounted(c, o1, o2) ==
    finishEffect([s |-> MountSession(card[c], now), db |-> db, out |-> << >>],
                 TRUE, now, o1, o2)

\* startOrResume after the await: setTimerOpen(true) mounts the timer with the
\* task prop the card has at that moment
StartDone(c) ==
    /\ AutoOp
    /\ busy[c] = "start"
    /\ \E o1 \in Results, o2 \in Results :
        Commit(c, Mounted(c, o1, o2), "mount", NoRow, FALSE, FALSE)

\* the "Open Timer" button of a card whose task is running
OpenTimer(c) ==
    /\ UserOp
    /\ CardIdle(c)
    /\ card[c].is_running
    /\ \E o1 \in Results, o2 \in Results :
        Commit(c, Mounted(c, o1, o2), "mount", NoRow, FALSE, FALSE)

\* pauseTimer
PauseTimer(c) ==
    /\ UserOp
    /\ CardIdle(c)
    /\ card[c].is_running
    /\ \E o \in Results : CardWrite(c, PauseRow(db, card[c], now), o, "cardPause", "idle")

\* markComplete
MarkComplete(c) ==
    /\ UserOp
    /\ CardIdle(c)
    /\ card[c].status # "completed"
    /\ \E o \in Results : CardWrite(c, CompleteRow(db), o, "cardComplete", "idle")

\* the interval callback, then the render and its effects
tick(x, t, o0, o1, o2) ==
    LET s == x.s
        nowRem == computeRemainingNow(s, s.running, t)
        x0 == [x EXCEPT !.s.remaining = nowRem]
        x1 == IF s.running /\ t - s.lastPersist >= PersistIntervalMs
              THEN [persistToDb(x0, s.running, FALSE, t, o0) EXCEPT !.s.lastPersist = t]
              ELSE x0
    IN  finishEffect(x1, nowRem # s.remaining, t, o1, o2)

\* one firing of the 250 ms ticker
Tick(c) ==
    /\ AutoOp
    /\ sess[c].open
    /\ \E o0 \in Results, o1 \in Results, o2 \in Results :
        Commit(c, tick(Run(c), now, o0, o1, o2), "tick", NoRow, FALSE, TRUE)

\* the postgres_changes handler, then the render and its effects
notify(x, row, t, o1, o2) ==
    LET s1 == reconcile(x.s, row, t)
    IN  finishEffect([x EXCEPT !.s = s1], s1.remaining # x.s.remaining, t, o1, o2)

\* delivery of the oldest pending change notification
Notify(c) ==
    /\ AutoOp
    /\ sess[c].open
    /\ inbox[c] # << >>
    /\ \E o1 \in Results, o2 \in Results :
        Commit(c, notify(Run(c), Head(inbox[c]), now, o1, o2), "notify",
               Head(inbox[c]), TRUE, FALSE)

\* handleResume; its persistToDb is the one of the render it was created in,
\* whose `running` is the value before the click
handleResume(x, t, o) ==
    persistToDb([x EXCEPT !.s = resumeSession(x.s, t)], x.s.running, FALSE, t, o)

\* the Resume button, or Space while not running
HandleResume(c) ==
    /\ UserOp
    /\ sess[c].open /\ ~sess[c].hidden /\ ~sess[c].running
    /\ \E o \in Results :
        Commit(c, handleResume(Run(c), now, o), "resume", NoRow, FALSE, FALSE)

\* a pause whose update is not forced to the paused form
handlePause_NotForced(x, t, o) ==
    persistToDb([x EXCEPT !.s = pauseSession(x.s, t)], x.s.running, FALSE, t, o)

\* handlePause: its persistToDb(true) is the one of the render before the click
handlePause(x, t, o) ==
    persistToDb([x EXCEPT !.s = pauseSession(x.s, t)], x.s.running, TRUE, t, o)

\* the Pause button, or Space while running
HandlePause(c) ==
    /\ UserOp
    /\ sess[c].open /\ ~sess[c].hidden /\ sess[c].running
    /\ \E o \in Results :
        Commit(c, handlePause(Run(c), now, o), "pause", NoRow, FALSE, FALSE)

\* a stop whose update is not forced to the paused form
handleStop_NotForced(x, t, o) ==
    [persistToDb(x, x.s.running, FALSE, t, o) EXCEPT !.s = closeSession(x.s)]

\* handleStop: persist as paused, then onClose
handleStop(x, t, o) ==
    [persistToDb(x, x.s.running, TRUE, t, o) EXCEPT !.s = closeSession(x.s)]

HandleStop(c) ==
    /\ UserOp
    /\ sess[c].open /\ ~sess[c].hidden
    /\ \E o \in Results :
        Commit(c, handleStop(Run(c), now, o), "stop", NoRow, FALSE, FALSE)

\* handleFinishNow up to the await of its persistToDb
handleFinishNow(x, t, o) ==
    [persistToDb([x EXCEPT !.s = finishNowSession(x.s)], x.s.running, TRUE, t, o)
        EXCEPT !.s.fnPending = @ + 1]

HandleFinishNow(c) ==
    /\ UserOp
    /\ sess[c].open /\ ~sess[c].hidden
    /\ sess[c].finishCalls + sess[c].fnPending < MaxFinishCalls
    /\ \E o \in Results :
        Commit(c, handleFinishNow(Run(c), now, o), "finishNow", NoRow, FALSE, FALSE)

\* handleFinishNow after the await: onFinish, then the delayed onClose
finishNowDone(x, t, o) ==
    LET x0 == [x EXCEPT !.s.fnPending = @ - 1]
        x1 == onFinish(x0, o)
    IN  IF x.s.open
        THEN [x1 EXCEPT !.s = SetCloseTimer(@, t + FinishNowCloseDelayMs)]
        ELSE [x1 EXCEPT !.s = x0.s]

FinishNowDone(c) ==
    /\ AutoOp
    /\ sess[c].fnPending > 0
    /\ \E o \in Results :
        Commit(c, finishNowDone(Run(c), now, o), "finishNowDone", NoRow, FALSE, FALSE)

\* Escape: onClose without a write
Escape(c) ==
    /\ UserOp
    /\ sess[c].open /\ ~sess[c].hidden
    /\ Commit(c, [Run(c) EXCEPT !.s = closeSession(sess[c])], "close", NoRow, FALSE, FALSE)

\* the delayed onClose armed by a finish
AutoClose(c) ==
    /\ AutoOp
    /\ sess[c].open /\ sess[c].closeAt # NULL /\ now >= sess[c].closeAt
    /\ Commit(c, [Run(c) EXCEPT !.s = closeSession(sess[c])], "autoClose", NoRow, FALSE, FALSE)

\* a persistToDb whose update resolved: lastPersistRef = Date.now()
Ack(c) ==
    /\ sess[c].open /\ sess[c].ackPending
    /\ sess' = [sess EXCEPT ![c].ackPending = FALSE, ![c].lastPersist = now]
    /\ UNCHANGED <<now, db, card, busy, inbox, due, lag, ops, lossy, pom, hist>>

\* a hidden branch that writes only when the periodic write is due
onHidden_OnCadence(x, t, o) ==
    IF x.s.running /\ t - x.s.lastPersist >= PersistIntervalMs
    THEN persistToDb([x EXCEPT !.s.hidden = TRUE], x.s.running, FALSE, t, o)
    ELSE [x EXCEPT !.s.hidden = TRUE]

\* onVisibility, hidden branch: persistToDb(false) of the current render
onHidden(x, t, o) ==
    persistToDb([x EXCEPT !.s.hidden = TRUE], x.s.running, FALSE, t, o)

\* visibilitychange to hidden
HideTab(c) ==
    /\ UserOp
    /\ sess[c].open /\ ~sess[c].hidden
    /\ \E o \in Results :
        Commit(c, onHidden(Run(c), now, o), "hide", NoRow, FALSE, FALSE)

\* a visible branch that adopts whatever the select returned
onVisible_IgnoresError(x, fetched, t, o1, o2) ==
    LET s0 == [x.s EXCEPT !.hidden = FALSE]
        s1 == resyncSession(s0, NoRow, t)
    IN  IF fetched = "fail" THEN [x EXCEPT !.s = s1]
        ELSE finishEffect([x EXCEPT !.s = resyncSession(s0, Row(x.db), t)],
                          resyncSession(s0, Row(x.db), t).remaining # x.s.remaining,
                          t, o1, o2)

\* onVisibility, visible branch: select the row and resynchronise
onVisible(x, fetched, t, o1, o2) ==
    LET s0 == [x.s EXCEPT !.hidden = FALSE]
        s1 == IF fetched # "fail" THEN resyncSession(s0, Row(x.db), t) ELSE s0
    IN  finishEffect([x EXCEPT !.s = s1], s1.remaining # x.s.remaining, t, o1, o2)

ShowTab(c) ==
    /\ UserOp
    /\ sess[c].open /\ sess[c].hidden
    /\ \E fetched \in Results, o1 \in Results, o2 \in Results :
        Commit(c, onVisible(Run(c), fetched, now, o1, o2),
               IF fetched # "fail" THEN "show" ELSE "showFailed", Row(db), FALSE, FALSE)

\* ---- Pomodoro actions

PomCommit(p, op) ==
    /\ pom' = [p EXCEPT !.last = op]
    /\ UNCHANGED timerVars

PomUserOp(p) == [p EXCEPT !.ops = @ + 1]

\* the scheduler is cancelled: Pomodoro is unmounted, or not running with
\* that render and its effects done
PomCancelled ==
    ~pom.mounted \/ (~pom.running /\ ~pom.renderPending)

\* start(): setRunning(true), rendered at once (a click or key)
PomStart ==
    /\ pom.mounted /\ ~pom.running /\ pom.ops < MaxPomOps
    /\ PomCommit(render([PomUserOp(pom) EXCEPT !.running = TRUE, !.ticks = 0,
                                               !.startAt = pom.t, !.tickAt = NULL]),
                 "start")

\* pause(): setRunning(false), rendered at once
PomPause ==
    /\ pom.mounted /\ pom.running /\ pom.ops < MaxPomOps
    /\ PomCommit(render([PomUserOp(pom) EXCEPT !.running = FALSE]), "pause")

\* a state update that is not the countdown's (a setting is edited)
PomSetting ==
    /\ pom.mounted /\ pom.ops < MaxPomOps
    /\ PomCommit(render(PomUserOp(pom)), "setting")

\* the render a tick's setSecondsLeft asked for
PomRender ==
    /\ pom.mounted /\ pom.renderPending
    /\ PomCommit(render(pom), "render")

\* the component is unmounted: the effect's cleanup runs
PomUnmount ==
    /\ pom.mounted /\ pom.ops < MaxPomOps
    /\ PomCommit([effectCleanup(PomUserOp(pom)) EXCEPT !.mounted = FALSE,
                                                     !.renderPending = FALSE],
                 "unmount")

\* the browser runs a pending timeout, d ms after it was due; a render that
\* is pending comes first unless the timeout is already due
PomFire ==
    /\ pom.fires < MaxPomFires
    /\ \E tm \in pom.timers : \E d \in PomDelays :
        /\ tm.due + d >= pom.t
        /\ pom.renderPending => tm.due + d = pom.t
        /\ LET p0 == [pom EXCEPT !.t = tm.due + d,
                                  !.timers = @ \ {tm},
                                  !.fires = @ + 1,
                                  !.ticks = @ + 1,
                                  !.tickAt = tm.due + d,
                                  !.delay = d,
                                  !.lateTicks = IF PomCancelled THEN @ + 1 ELSE @]
           IN  PomCommit(step(p0), "fire")

\* the values of "long break every" a user has stored or types
LongEveryChoices == {2, DefaultLongEvery}
PomModes == {"work", "short", "long"}

\* the mount effect that reads localStorage: the state a former visit
\* stored (its mode, its count of work sessions, its settings, and a
\* countdown that is either full or about to end), then the render
PomLoad ==
    /\ pom.mounted /\ pom.last = "none"
    /\ \E m \in PomModes, le \in LongEveryChoices, auto \in BOOLEAN :
       \E sc \in 0..(le - 1), s \in {1, durationOf(m)} :
          PomCommit(render([pom EXCEPT !.mode = m, !.longEvery = le,
                                       !.sessionCount = sc, !.secondsLeft = s,
                                       !.autoStartNext = auto]),
                    "load")

\* the "long break every" input is edited: setLongEvery, rendered at once
PomSetLongEvery ==
    /\ pom.mounted /\ ~pom.renderPending /\ pom.ops < MaxPomOps
    /\ \E le \in LongEveryChoices \ {pom.longEvery} :
          PomCommit(render([PomUserOp(pom) EXCEPT !.longEvery = le]), "setLongEvery")

\* the Next button: skipToNext of the current render
PomSkip ==
    /\ pom.mounted /\ ~pom.renderPending /\ pom.ops < MaxPomOps
    /\ PomCommit(render(skipToNext(PomUserOp(pom), pom.mode, pom.longEvery)), "skip")

\* the N key: skipToNext of the render in which the keyboard effect last ran
PomSkipKey ==
    /\ pom.mounted /\ ~pom.renderPending /\ pom.ops < MaxPomOps
    /\ PomCommit(render(skipToNext(PomUserOp(pom), pom.keyMode, pom.keyLongEvery)),
                 "skipKey")

CycleNext ==
    \/ PomLoad
    \/ PomSetLongEvery
    \/ PomStart
    \/ PomFire
    \/ PomRender
    \/ PomSkip
    \/ PomSkipKey

\* the Pomodoro page alone, with its stored state, its settings and its keys
CycleSpec == Init /\ [][CycleNext]_vars

PomNext ==
    \/ PomStart
    \/ PomPause
    \/ PomSetting
    \/ PomRender
    \/ PomUnmount
    \/ PomFire

\* the Pomodoro page alone
PomSpec == Init /\ [][PomNext]_vars

Next ==
    \/ AdvanceTime
    \/ \E c \in Clients : LoadTasks(c)
    \/ \E c \in Clients : StartOrResume(c)
    \/ \E c \in Clients : StartDone(c)
    \/ \E c \in Clients : OpenTimer(c)
    \/ \E c \in Clients : PauseTimer(c)
    \/ \E c \in Clients : MarkComplete(c)
    \/ \E c \in Clients : Tick(c)
    \/ \E c \in Clients : Notify(c)
    \/ \E c \in Clients : HandleResume(c)
    \/ \E c \in Clients : HandlePause(c)
    \/ \E c \in Clients : HandleStop(c)
    \/ \E c \in Clients : HandleFinishNow(c)
    \/ \E c \in Clients : FinishNowDone(c)
    \/ \E c \in Clients : Escape(c)
    \/ \E c \in Clients : AutoClose(c)
    \/ \E c \in Clients : HideTab(c)
    \/ \E c \in Clients : ShowTab(c)

\* every request succeeds and resolves before the client's next event
Spec == Init /\ [][Next]_vars
\* one browser alone: only client A's card and timer take steps
SoloNext ==
    \/ AdvanceTime
    \/ LoadTasks("A")
    \/ StartOrResume("A")
    \/ StartDone("A")
    \/ OpenTimer("A")
    \/ PauseTimer("A")
    \/ MarkComplete("A")
    \/ Tick("A")
    \/ Notify("A")
    \/ HandleResume("A")
    \/ HandlePause("A")
    \/ HandleStop("A")
    \/ HandleFinishNow("A")
    \/ FinishNowDone("A")
    \/ Escape("A")
    \/ AutoClose("A")
    \/ HideTab("A")
    \/ ShowTab("A")

SoloSpec == Init /\ [][SoloNext]_vars

\* one browser alone, and requests to the backend may fail or resolve late
LossyNext ==
    \/ SoloNext
    \/ Ack("A")

LossySpec == InitWith(TRUE) /\ [][LossyNext]_vars

\* ------------------------------------------------------------------------
\* the session of client c, as the properties below read it

\* computeRemainingNow() of c's current render
Live(c) == computeRemainingNow(sess[c], sess[c].running, now)

\* the value a reader derives from the durable row
ReaderLive == liveFromRow(db.remaining_seconds, db.is_running, db.last_started_at, now)

\* the session the postgres_changes handler leaves when c's oldest pending
\* notification is delivered now
Reconciled(c) == reconcile(sess[c], Head(inbox[c]), now)

\* base and startInstant as the fields of row give them
FromRow(s, row) ==
    /\ s.base = row.remaining_seconds * MsPerSec
    /\ s.startTs = IF row.is_running THEN row.last_started_at ELSE NULL

\* ------------------------------------------------------------------------
\* properties

\* C1: whenever the notification to be delivered carries an is_running that
\* differs from the session's current running flag, the handler leaves the
\* session with the remote flag and with base and startInstant taken from
\* the remote remaining_seconds and last_started_at
C1_FlipAdopted ==
    \A c \in Clients :
        (/\ sess[c].open /\ inbox[c] # << >>
         /\ Head(inbox[c]).is_running # sess[c].running)
        => /\ Reconciled(c).running = Head(inbox[c]).is_running
           /\ FromRow(Reconciled(c), Head(inbox[c]))

\* C2: when client a has just paused (from its timer or its card) and client
\* b's session is running, delivering that notification to b leaves b
\* Paused: not running, no startInstant, base = the persisted remaining
C2_RemotePausePauses ==
    \A a \in Clients : \A b \in Clients \ {a} :
        (/\ hist.c = a /\ hist.op \in {"pause", "cardPause"}
         /\ sess[b].open /\ sess[b].running
         /\ Len(inbox[b]) = 1 /\ Head(inbox[b]) = Row(db))
        => /\ ~Reconciled(b).running
           /\ Reconciled(b).startTs = NULL
           /\ Reconciled(b).base = db.remaining_seconds * MsPerSec

\* C3: when the notification to be delivered agrees with the session on
\* running/paused, the handler leaves base and startInstant alone if the
\* local live remaining and the live remaining derived from the remote
\* fields differ by at most 2 s, and overwrites them from the remote fields
\* if they differ by more
C3_ToleranceBranch ==
    \A c \in Clients :
        (/\ sess[c].open /\ inbox[c] # << >>
         /\ Head(inbox[c]).is_running = sess[c].running)
        => LET row == Head(inbox[c])
               remoteLive == liveFromRow(row.remaining_seconds, row.is_running,
                                         row.last_started_at, now)
           IN  IF Abs(Live(c) - remoteLive) <= ToleranceSec * MsPerSec
               THEN /\ Reconciled(c).base = sess[c].base
                    /\ Reconciled(c).startTs = sess[c].startTs
               ELSE FromRow(Reconciled(c), row)

\* C5: once client d's completion callback has run, the delivery of a
\* finished row (not running, nothing remaining) to another client c whose
\* own callback has not run does not make c's callback run
C5_NotifyStep ==
    \A c \in Clients : \A d \in Clients \ {c} :
        (/\ sess[d].open /\ sess[d].finishCalls >= 1
         /\ sess[c].open /\ sess[c].finishCalls = 0 /\ sess[c].fnPending = 0
         /\ inbox[c] # << >>
         /\ ~Head(inbox[c]).is_running /\ Head(inbox[c]).remaining_seconds = 0
         /\ hist'.op = "notify" /\ hist'.c = c /\ hist'.row = Head(inbox[c])
         /\ inbox'[c] # inbox[c])
        => sess'[c].finishCalls = 0

C5_OneCallbackPerRun == [][C5_NotifyStep]_vars

\* C7: after any sequence of writes by any writer the durable row has
\* is_running = true if and only if last_started_at is present
C7_RunningIffStarted ==
    db.is_running <=> db.last_started_at # NULL

\* C4: within one timer session (mount to teardown) the completion callback
\* onFinish is invoked at most once
C4_FinishAtMostOnce ==
    \A c \in Clients : sess[c].open => sess[c].finishCalls <= 1

\* C6: right after a periodic write made while running, the live remaining a
\* reader derives from the durable row equals the writer's
\* computeRemainingNow() at the same instant, up to the one second the write
\* rounds away
C6_PeriodicWriteAgrees ==
    \A c \in Clients :
        (/\ hist.op = "tick" /\ hist.c = c
         /\ sess[c].open /\ sess[c].running /\ sess[c].lastPersist = now
         /\ db.is_running)
        => Abs(ReaderLive - Live(c)) <= MsPerSec

\* C8: a pause directly followed by a resume of the same session, with no
\* wall-clock time between them, leaves computeRemainingNow() as it was
\* before the pause
C8_PauseResumeNoOp ==
    \A c \in Clients :
        (hist.op = "resume" /\ hist.c = c /\ hist.paired /\ sess[c].open)
        => Live(c) = hist.rem

\* the pair ran on a session whose countdown had already moved, by a
\* fraction of a second, and has time left
C8_Witness ==
    \E c \in Clients :
        /\ hist.op = "resume" /\ hist.c = c /\ hist.paired
        /\ sess[c].open /\ sess[c].running
        /\ now > Epoch
        /\ hist.rem > 0 /\ hist.rem % MsPerSec # 0
        /\ Live(c) = hist.rem

\* C9: while only the wall clock moves, computeRemainingNow() does not grow
\* in a running session and does not change in a paused one
C9_MonotoneStep ==
    now' # now =>
        \A c \in Clients : sess[c].open =>
            LET before == computeRemainingNow(sess[c], sess[c].running, now)
                after == computeRemainingNow(sess'[c], sess'[c].running, now')
            IN  IF sess[c].running THEN after <= before ELSE after = before

C9_Monotone == [][C9_MonotoneStep]_vars

\* the clock has just moved under a running session: its ticker has not
\* fired yet and its countdown is below what it last displayed
C9_Witness ==
    \E c \in due :
        /\ now > Epoch
        /\ sess[c].open /\ sess[c].running /\ sess[c].startTs # NULL
        /\ Live(c) < sess[c].remaining /\ Live(c) > 0

\* C10: in every reachable session state computeRemainingNow() is
\* max(0, base - (now - startInstant)) when the session is running and base
\* when it is paused, and it is never negative
C10_ComputeRemaining ==
    \A c \in Clients : sess[c].open =>
        /\ Live(c) >= 0
        /\ sess[c].running =>
              /\ sess[c].startTs # NULL
              /\ Live(c) = Max(0, sess[c].base - (now - sess[c].startTs))
        /\ ~sess[c].running => Live(c) = sess[c].base

\* the payload of an update of the timer's three columns
Payload(remSec, run, last) ==
    [remaining_seconds |-> remSec, is_running |-> run, last_started_at |-> last]

\* computeRemainingNow() of c's render after the step
LiveAfter(c) == computeRemainingNow(sess'[c], sess'[c].running, now')

\* C11: the single-client trace, checkpoint by checkpoint (its 1500 s are
\* scaled to the seconds of the model): a pause persists the remaining of
\* that moment with is_running = false; a later resume persists that same
\* remaining with is_running = true and last_started_at = the instant of
\* the resume, so that the paused time consumes nothing; and the tick at
\* which computeRemainingNow() is 0 persists remaining 0, not running,
\* status completed
C11_TraceStep ==
    LET s == sess["A"]
    IN  /\ (ops' = ops + 1 /\ hist'.op = "pause" /\ hist'.c = "A")
           => /\ db'.remaining_seconds = FloorSec(Live("A"))
              /\ ~db'.is_running
        /\ (ops' = ops + 1 /\ hist'.op = "resume" /\ hist'.c = "A")
           => /\ LiveAfter("A") = s.base
              /\ Row(db') = Payload(FloorSec(s.base), TRUE, now)
        /\ (hist'.op = "tick" /\ hist'.c = "A" /\ hist' # hist
            /\ s.running /\ s.remaining > 0 /\ Live("A") = 0)
           => /\ db'.remaining_seconds = 0 /\ ~db'.is_running
              /\ db'.status = "completed"

C11_Trace == [][C11_TraceStep]_vars

\* C12: a resume click on a paused (or not yet started) session sets base
\* to the remaining of that moment, startInstant to now and running to
\* true, and the one update it sends carries is_running = true,
\* last_started_at = that start instant and remaining_seconds = base
C12_ResumeStep ==
    \A c \in Clients :
        (ops' = ops + 1 /\ hist'.op = "resume" /\ hist'.c = c)
        => /\ sess'[c].base = Live(c)
           /\ sess'[c].startTs = now
           /\ sess'[c].running
           /\ hist'.out = <<Payload(FloorSec(sess'[c].base), TRUE, now)>>

C12_ResumeWrites == [][C12_ResumeStep]_vars

\* C13 as stated: a pause click on a running session sets base to the live
\* remaining of that moment, startInstant to null and running to false, and
\* sends exactly one update, {remaining_seconds: base, is_running: false,
\* last_started_at: null}
C13_PauseStepExact ==
    \A c \in Clients :
        (ops' = ops + 1 /\ hist'.op = "pause" /\ hist'.c = c)
        => /\ sess'[c].base = Live(c)
           /\ sess'[c].startTs = NULL
           /\ ~sess'[c].running
           /\ Len(hist'.out) = 1
           /\ hist'.out[1].remaining_seconds * MsPerSec = sess'[c].base
           /\ ~hist'.out[1].is_running
           /\ hist'.out[1].last_started_at = NULL

C13_PauseWritesBase == [][C13_PauseStepExact]_vars

\* C13, amended: the same, with remaining_seconds = base rounded down to
\* whole seconds
C13_PauseStep ==
    \A c \in Clients :
        (ops' = ops + 1 /\ hist'.op = "pause" /\ hist'.c = c)
        => /\ sess'[c].base = Live(c)
           /\ sess'[c].startTs = NULL
           /\ ~sess'[c].running
           /\ hist'.out = <<Payload(FloorSec(sess'[c].base), FALSE, NULL)>>

C13_PauseWritesFloor == [][C13_PauseStep]_vars

\* a session that had run for a fraction of a second has just been paused
C13_Witness ==
    \E c \in Clients :
        /\ hist.op = "pause" /\ hist.c = c
        /\ sess[c].open /\ ~sess[c].running /\ sess[c].startTs = NULL
        /\ sess[c].base = hist.rem
        /\ sess[c].base > 0 /\ sess[c].base % MsPerSec # 0
        /\ hist.out = <<Payload(FloorSec(sess[c].base), FALSE, NULL)>>

C15_TerminalStep ==
    \A c \in Clients :
        (/\ sess[c].open /\ sess[c].finishCalls >= 1 /\ ~sess[c].running
         /\ sess'[c].open)
        => ~sess'[c].running

C15_FinishedIsTerminal == [][C15_TerminalStep]_vars

\* C16: a row whose status is completed has remaining_seconds = 0 and
\* is_running = false, whatever any client writes afterwards
C16_CompletedStaysFinished ==
    db.status = "completed" => (db.remaining_seconds = 0 /\ ~db.is_running)

\* C17: a click on "Finish now", in whatever state the session is, leaves
\* it not running with base = 0 and no startInstant, sends the one update
\* {remaining_seconds: 0, is_running: false, last_started_at: null} and
\* schedules the completion callback; when that update has resolved the
\* callback is invoked (it marks the task completed)
C17_ForceFinishStep ==
    \A c \in Clients :
        /\ (ops' = ops + 1 /\ hist'.op = "finishNow" /\ hist'.c = c)
           => /\ ~sess'[c].running
              /\ sess'[c].base = 0
              /\ sess'[c].startTs = NULL
              /\ hist'.out = <<Payload(0, FALSE, NULL)>>
              /\ sess'[c].fnPending = sess[c].fnPending + 1
        /\ (/\ hist'.op = "finishNowDone" /\ hist'.c = c
            /\ sess'[c].fnPending = sess[c].fnPending - 1)
           => /\ db'.status = "completed"
              /\ hist'.out = <<Payload(0, FALSE, db.last_started_at)>>
              /\ sess[c].open =>
                    sess'[c].finishCalls = Min(sess[c].finishCalls + 1, MaxFinishCalls)

C17_ForceFinish == [][C17_ForceFinishStep]_vars

\* a running session with time left, some of it a fraction of a second,
\* has just been finished by force
C17_Witness ==
    \E c \in Clients :
        /\ hist.op = "finishNow" /\ hist.c = c
        /\ now > Epoch /\ hist.rem > 0 /\ hist.rem % MsPerSec # 0
        /\ sess[c].open /\ ~sess[c].running /\ sess[c].base = 0
        /\ sess[c].fnPending = 1
        /\ hist.out = <<Payload(0, FALSE, NULL)>>

\* the run of c's next ticker callback, fired now
NextTick(c) == tick(Run(c), now, "o", "o", "o")

\* C18: whenever a session is running and computeRemainingNow() is 0, its
\* next tick leaves it not running with base = 0 and no startInstant, sends
\* the update {remaining_seconds: 0, is_running: false, last_started_at:
\* null} and invokes the completion callback (which marks the task
\* completed)
C18_ZeroCrossingFinishes ==
    \A c \in Clients :
        (sess[c].open /\ sess[c].running /\ Live(c) = 0
         /\ sess[c].finishCalls = 0 /\ sess[c].fnPending = 0)
        => /\ ~NextTick(c).s.running
           /\ NextTick(c).s.base = 0
           /\ NextTick(c).s.startTs = NULL
           /\ NextTick(c).s.finishCalls = 1
           /\ \E i \in DOMAIN NextTick(c).out :
                 NextTick(c).out[i] = Payload(0, FALSE, NULL)
           /\ NextTick(c).db.status = "completed"

\* C19 as stated: a click on Stop, running or paused, sends one update with
\* remaining_seconds = the live remaining of that moment, is_running =
\* false and last_started_at = null, leaves the status as it was, does not
\* invoke the completion callback and closes the view
C19_StopStepExact ==
    \A c \in Clients :
        (ops' = ops + 1 /\ hist'.op = "stop" /\ hist'.c = c)
        => /\ Len(hist'.out) = 1
           /\ hist'.out[1].remaining_seconds * MsPerSec = Live(c)
           /\ ~hist'.out[1].is_running
           /\ hist'.out[1].last_started_at = NULL
           /\ db'.status = db.status
           /\ sess'[c].fnPending = sess[c].fnPending
           /\ ~sess'[c].open

C19_StopPersistsLive == [][C19_StopStepExact]_vars

\* C19, amended: the same, with remaining_seconds = the live remaining
\* rounded down to whole seconds
C19_StopStep ==
    \A c \in Clients :
        (ops' = ops + 1 /\ hist'.op = "stop" /\ hist'.c = c)
        => /\ hist'.out = <<Payload(FloorSec(Live(c)), FALSE, NULL)>>
           /\ Row(db') = Payload(FloorSec(Live(c)), FALSE, NULL)
           /\ db'.status = db.status
           /\ sess'[c].fnPending = sess[c].fnPending
           /\ ~sess'[c].open

C19_StopPersistsFloor == [][C19_StopStep]_vars

\* a timer with a fraction of a second on its countdown has just been
\* stopped: the view is closed and the task is still pending
C19_Witness ==
    \E c \in Clients :
        /\ hist.op = "stop" /\ hist.c = c
        /\ ~sess[c].open
        /\ hist.rem > 0 /\ hist.rem % MsPerSec # 0
        /\ hist.out = <<Payload(FloorSec(hist.rem), FALSE, NULL)>>
        /\ db.status = "pending" /\ ~db.is_running

\* C20: every time the page of an open timer becomes hidden, exactly one
\* update is sent at once, whatever time has passed since the last periodic
\* write, and it carries the session as it is: the live remaining (in whole
\* seconds), the running flag, and the start instant of a running session
\* (none for a paused one)
C20_HideStep ==
    \A c \in Clients :
        (ops' = ops + 1 /\ hist'.op = "hide" /\ hist'.c = c)
        => /\ Len(hist'.out) = 1
           /\ hist'.out[1].remaining_seconds = FloorSec(Live(c))
           /\ hist'.out[1].is_running = sess[c].running
           /\ sess[c].startTs # NULL /\ sess[c].running
                 => hist'.out[1].last_started_at = sess[c].startTs
           /\ ~sess[c].running => hist'.out[1].last_started_at = NULL
           /\ Row(db') = hist'.out[1]
           /\ sess'[c].open /\ sess'[c].hidden

C20_HideWrites == [][C20_HideStep]_vars

\* the page of a running timer has just been hidden, 1.5 s after the
\* timer's last periodic write, and the update went out
C20_Witness ==
    \E c \in Clients :
        /\ hist.op = "hide" /\ hist.c = c
        /\ sess[c].open /\ sess[c].hidden /\ sess[c].running
        /\ hist.since > 0 /\ hist.since < PersistIntervalMs
        /\ hist.rem > 0
        /\ hist.out = <<Payload(FloorSec(hist.rem), TRUE, sess[c].startTs)>>

\* C21: when the page of an open timer becomes visible again and the
\* select succeeds, the session is replaced by the durable row, whatever it
\* was before: running = is_running, base = remaining_seconds, startInstant
\* = last_started_at when the row is running and null otherwise (a finish
\* may follow in the same render when that leaves a running session at 0)
C21_ShowStep ==
    \A c \in Clients :
        (ops' = ops + 1 /\ hist'.op = "show" /\ hist'.c = c)
        => LET r == resyncSession([sess[c] EXCEPT !.hidden = FALSE], Row(db), now)
           IN  /\ r.running = db.is_running
               /\ FromRow(r, db)
               /\ \/ sess'[c] = r
                  \/ /\ r.running /\ r.remaining <= 0
                     /\ sess'[c].finishCalls = Min(sess[c].finishCalls + 1, MaxFinishCalls)

C21_ResyncReplaces == [][C21_ShowStep]_vars

\* a timer whose countdown disagreed with the durable row has just been
\* shown again and now has the row's fields
C21_Witness ==
    \E c \in Clients :
        /\ hist.op = "show" /\ hist.c = c
        /\ sess[c].open /\ ~sess[c].hidden
        /\ hist.row = Row(db)
        /\ sess[c].running = db.is_running /\ FromRow(sess[c], db)
        /\ hist.rem # Live(c)

\* what a transition leaves of the session, apart from the bookkeeping of
\* the writes themselves (lastPersistRef, an update still unresolved)
Local(s) == [s EXCEPT !.lastPersist = 0, !.ackPending = FALSE]

\* the ways a request can go wrong
Failures == {"late", "fail"}

\* C22: in every reachable state, and for each of resume, pause, stop,
\* force-finish (the click and its continuation) and a tick with its
\* natural finish, the session the transition leaves is the same whether
\* its writes succeed or fail, and a session that is running after a failed
\* write still counts down from its own base and start instant
C22_FailedWriteNeverBlocks ==
    \A c \in Clients : sess[c].open =>
        \A o \in Failures :
            /\ Local(handleResume(Run(c), now, o).s) = Local(handleResume(Run(c), now, "o").s)
            /\ Local(handlePause(Run(c), now, o).s) = Local(handlePause(Run(c), now, "o").s)
            /\ Local(handleStop(Run(c), now, o).s) = Local(handleStop(Run(c), now, "o").s)
            /\ Local(handleFinishNow(Run(c), now, o).s)
                  = Local(handleFinishNow(Run(c), now, "o").s)
            /\ sess[c].fnPending > 0 =>
                  Local(finishNowDone(Run(c), now, o).s)
                    = Local(finishNowDone(Run(c), now, "o").s)
            /\ \A o1 \in Failures, o2 \in Failures :
                  Local(tick(Run(c), now, o, o1, o2).s)
                    = Local(tick(Run(c), now, "o", "o", "o").s)
            /\ LET s == handleResume(Run(c), now, o).s
               IN  s.running /\ s.startTs = now
                   /\ computeRemainingNow(s, TRUE, now + MsPerSec)
                         = Max(0, s.base - MsPerSec)

\* the update of a pause click has just failed: the session is paused with
\* the remaining of the click, and the durable row still says running
C22_Witness ==
    \E c \in Clients :
        /\ hist.op = "pause" /\ hist.c = c /\ hist.out = << >>
        /\ sess[c].open /\ ~sess[c].running /\ sess[c].startTs = NULL
        /\ sess[c].base = hist.rem /\ hist.rem > 0
        /\ db.is_running

\* C23: when the page of an open timer becomes visible again and the
\* select fails, base, startInstant and running are exactly what they were
\* before the attempt (and nothing else of the session changes either)
C23_ShowFailedStep ==
    \A c \in Clients :
        (ops' = ops + 1 /\ hist'.op = "showFailed" /\ hist'.c = c)
        => /\ sess'[c].base = sess[c].base
           /\ sess'[c].startTs = sess[c].startTs
           /\ sess'[c].running = sess[c].running
           /\ sess'[c] = [sess[c] EXCEPT !.hidden = FALSE]
           /\ db' = db

C23_FailedResyncKeepsLocal == [][C23_ShowFailedStep]_vars

\* the select has just failed for a running session with time left whose
\* fields differ from the durable row's
C23_Witness ==
    \E c \in Clients :
        /\ hist.op = "showFailed" /\ hist.c = c
        /\ sess[c].open /\ ~sess[c].hidden
        /\ sess[c].running /\ sess[c].base > 0
        /\ ~FromRow(sess[c], db)

\* what a timer that is not mounted can still be seen doing: its card's
\* buttons, and the continuation of a "Finish now" clicked before the close
ClosedOps == {"none", "cardStart", "cardPause", "cardComplete", "finishNowDone"}

\* C24: every way of closing a timer (Escape, Stop, the delayed onClose,
\* the unmount of its card) leaves no ticker due, no notification pending
\* and no delayed close armed; while the timer stays closed it takes no
\* tick, notification, visibility or close step; and Escape itself leaves
\* the durable row as it was
C24_TeardownStep ==
    \A c \in Clients :
        /\ (sess[c].open /\ ~sess'[c].open)
           => /\ inbox'[c] = << >>
              /\ c \notin due'
              /\ sess'[c].closeAt = NULL
              /\ ~sess'[c].running /\ sess'[c].lastPersist = 0
        /\ (~sess[c].open /\ ~sess'[c].open)
           => /\ inbox'[c] = << >> /\ c \notin due'
              /\ sess'[c].closeAt = NULL
              /\ (hist'.c = c /\ hist' # hist) => hist'.op \in ClosedOps
        /\ (hist'.op = "close" /\ hist'.c = c /\ ops' = ops + 1)
           => /\ db' = db
              /\ hist'.out = << >>
              /\ ~sess'[c].open

C24_TeardownCancels == [][C24_TeardownStep]_vars

\* a timer has just been closed with Escape, some time after the task was
\* started: it is gone and the durable row still says running
C24_Witness ==
    \E c \in Clients :
        /\ hist.op = "close" /\ hist.c = c
        /\ ~sess[c].open /\ inbox[c] = << >> /\ c \notin due
        /\ now > Epoch
        /\ db.is_running /\ db.last_started_at < now /\ db.status = "pending"

\* C25: while the Pomodoro countdown runs, started once and then left
\* alone, the time of the N-th callback since the start is N * interval
\* late by no more than the delay the browser added to that one firing
\* (and never early): earlier delays have been compensated
C25_NoAccumulatedDrift ==
    (/\ pom.mounted /\ pom.running /\ pom.ops = 1
     /\ pom.last = "fire" /\ pom.ticks >= 1)
    => LET late == pom.tickAt - (pom.startAt + pom.ticks * PomIntervalMs)
       IN  0 <= late /\ late <= pom.delay

\* C26: once the scheduler is cancelled (the render with running = false and
\* its effects are done, or Pomodoro is unmounted) no timeout is pending and
\* no callback has been invoked since the cancellation, at whichever point
\* of the firing cycle it came
C26_Cancellable ==
    /\ pom.lateTicks = 0
    /\ PomCancelled => pom.timers = {}

\* the countdown has been cancelled at the very instant of a firing, when
\* the timeout that step() had armed for the next one was pending
C26_Witness ==
    /\ pom.last \in {"pause", "unmount"}
    /\ PomCancelled
    /\ pom.ticks >= 1 /\ pom.t = pom.tickAt
    /\ pom.fires < MaxPomFires
    /\ pom.timers = {}

\* C27: when the scheduler is started it records expected = now + interval
\* and arms the first firing one interval ahead; each firing invokes the
\* callback once, computes drift = now - expected, advances expected by
\* exactly one interval and arms the next firing after
\* max(0, interval - drift), a delay that is never negative and is at most
\* the interval when drift >= 0
C27_SchedulerStep ==
    /\ (pom'.last = "start" /\ pom'.ops = pom.ops + 1)
       => /\ pom'.expected = pom.t + PomIntervalMs
          /\ pom'.timers = {[id |-> pom'.timerRef, due |-> pom.t + PomIntervalMs]}
    /\ (pom'.last = "fire" /\ pom'.fires = pom.fires + 1)
       => /\ pom'.ticks = pom.ticks + 1
          /\ pom'.drift = pom'.t - pom.expected
          /\ pom'.expected = pom.expected + PomIntervalMs
          /\ pom'.next = (IF PomIntervalMs - pom'.drift > 0
                          THEN PomIntervalMs - pom'.drift ELSE 0)
          /\ pom'.timers = {[id |-> pom'.timerRef, due |-> pom'.t + pom'.next]}
          /\ pom'.next >= 0
          /\ pom'.drift >= 0 => pom'.next <= PomIntervalMs

C27_Scheduler == [][C27_SchedulerStep]_vars

\* a firing that came late has just shortened the delay of the next one
C27_Witness ==
    /\ pom.last = "fire" /\ pom.running
    /\ pom.drift > 0 /\ pom.next = PomIntervalMs - pom.drift
    /\ pom.timers = {[id |-> pom.timerRef, due |-> pom.t + pom.next]}

\* the rows of a step's writes that say the task is running
RunningWrites(out) == {i \in DOMAIN out : out[i].is_running}

\* C28: a tick issues a periodic write {remaining_seconds, is_running: true,
\* last_started_at: startInstant} only while the session is running and only
\* when at least persistIntervalMs has passed since the session's last write:
\* a tick at the very instant at which the timer issued a write issues none
C28_CadenceStep ==
    \A c \in Clients :
        (/\ sess[c].open /\ now' = now /\ ops' = ops
         /\ hist'.op = "tick" /\ hist'.c = c /\ hist' # hist
         /\ RunningWrites(hist'.out) # {})
        => /\ sess[c].running
           /\ hist'.out[1].last_started_at = sess[c].startTs
           /\ ~(/\ hist.c = c /\ hist.out # << >>
                /\ hist.op \in {"resume", "pause", "stop", "hide", "tick"})

C28_PeriodicCadence == [][C28_CadenceStep]_vars

\* C29: a start/resume from the card that is written stores is_running = true,
\* last_started_at = now and remaining_seconds = the base the record has at
\* that moment; a pause from the card that is written stores
\* is_running = false, last_started_at = null and remaining_seconds = the
\* record's base minus the whole seconds elapsed since its last_started_at,
\* floored at 0
C29_CardStep ==
    \A c \in Clients :
        (ops' = ops + 1 /\ hist'.c = c /\ hist'.out # << >>)
        => /\ hist'.op = "cardStart"
              => db' = [db EXCEPT !.is_running = TRUE, !.last_started_at = now,
                                  !.remaining_seconds = db.remaining_seconds]
           /\ hist'.op = "cardPause"
              => db' = [db EXCEPT
                          !.is_running = FALSE, !.last_started_at = NULL,
                          !.remaining_seconds =
                              IF db.is_running /\ db.last_started_at # NULL
                              THEN Max(0, db.remaining_seconds
                                          - ((now - db.last_started_at) \div MsPerSec))
                              ELSE Max(0, db.remaining_seconds)]

C30_RunningIffStarted ==
    \A c \in Clients :
        sess[c].open => (sess[c].running <=> sess[c].startTs # NULL)

\* C31: with one browser alone, when the change notification of the timer's
\* own last write (resume, pause, periodic, hide) is delivered back to it,
\* the session keeps its running flag and computeRemainingNow() does not
\* move by a second or more
C31_EchoStep ==
    \A c \in Clients :
        (/\ sess[c].open /\ hist.c = c
         /\ hist.op \in {"resume", "pause", "hide", "tick"}
         /\ Len(hist.out) = 1 /\ inbox[c] = hist.out
         /\ ops' = ops /\ now' = now
         /\ hist'.op = "notify" /\ hist'.c = c)
        => /\ sess'[c].running = sess[c].running
           /\ Abs(LiveAfter(c) - Live(c)) < MsPerSec

C31_OwnEchoIsNeutral == [][C31_EchoStep]_vars

\* C32: with one browser alone, when the page of a timer that was hidden
\* becomes visible again and the re-fetch succeeds, the session keeps its
\* running flag and computeRemainingNow() is within one second of what the
\* session, which the hiding left untouched, gave just before
C32_ShowStep ==
    \A c \in Clients :
        (/\ sess[c].open /\ sess[c].hidden
         /\ ops' = ops + 1 /\ hist'.op = "show" /\ hist'.c = c)
        => /\ sess'[c].running = sess[c].running
           /\ Abs(LiveAfter(c) - Live(c)) <= MsPerSec

C32_HideShowRoundTrip == [][C32_ShowStep]_vars

\* C33: whichever client writes the row, and whether its timer or its card
\* does, the stored remaining_seconds is never negative and never larger
\* than it was before the write (so never larger than its initial value);
\* stated for the writes to a task that nobody has completed
C33_WriteStep ==
    (db.status # "completed" /\ db'.status # "completed")
    => /\ db'.remaining_seconds >= 0
       /\ db'.remaining_seconds <= db.remaining_seconds

C33_DurableRemainingNeverGrows == [][C33_WriteStep]_vars

\* C34: in a state where nothing is under way (every change notification has
\* been delivered, no request is in flight, every ticker has fired since the
\* clock last moved), every open session has the running flag of the durable
\* row and a computeRemainingNow() within the tolerance of 2 s, plus the second
\* a write rounds away, of the live remaining derived from the row
C34_Converged ==
    (~InFlight /\ due = {})
    => \A c \in Clients :
          sess[c].open
          => /\ sess[c].running = db.is_running
             /\ Abs(Live(c) - ReaderLive) <= (ToleranceSec + 1) * MsPerSec

\* C35: when the card's start action has written is_running = true and the
\* timer view has just been opened by it, the new session is running, its
\* start instant is the last_started_at just written and its base is the
\* remaining_seconds just written
C35_OpenStep ==
    \A c \in Clients :
        (/\ busy[c] = "start" /\ busy'[c] = "idle"
         /\ hist'.op = "mount" /\ hist'.c = c /\ sess'[c].open
         /\ db.is_running /\ db' = db)
        => /\ sess'[c].running
           /\ sess'[c].startTs = db.last_started_at
           /\ sess'[c].base = db.remaining_seconds * MsPerSec

C35_SessionMirrorsRecord == [][C35_OpenStep]_vars

\* C36: finishing (the tick that ends the countdown) or skipping (the Next
\* button or the N key) a work session adds exactly one to cyclesCompleted
\* and leads to the long break exactly when the work sessions since the last
\* long break reach longEvery, the count going back to 0, and otherwise to
\* the short break; finishing or skipping a break leads to work; secondsLeft
\* is then the full duration of the new mode
C36_CycleStep ==
    LET finishing == /\ pom'.last = "fire" /\ pom'.fires = pom.fires + 1
                     /\ pom.running /\ pom.secondsLeft <= 1
        skipping == pom'.last \in {"skip", "skipKey"} /\ pom'.ops = pom.ops + 1
    IN  (finishing \/ skipping)
        => /\ pom'.secondsLeft = durationOf(pom'.mode)
           /\ IF pom.mode = "work"
              THEN /\ pom'.cyclesCompleted = pom.cyclesCompleted + 1
                   /\ IF pom.sessionCount + 1 >= pom.longEvery
                      THEN pom'.mode = "long" /\ pom'.sessionCount = 0
                      ELSE /\ pom'.mode = "short"
                           /\ pom'.sessionCount = pom.sessionCount + 1
              ELSE /\ pom'.mode = "work"
                   /\ pom'.cyclesCompleted = pom.cyclesCompleted
                   /\ pom'.sessionCount = pom.sessionCount

C36_ModeCycle == [][C36_CycleStep]_vars
====
